---- MODULE Spec2Model ----
(***************************************************************************)
(* A model of arrow2_convert: the mapping of Rust field types to Arrow     *)
(* data types (field.rs), the serialization of values into mutable arrays  *)
(* (serialize.rs, derive_struct.rs, derive_enum.rs) and the typed          *)
(* iterators that read sealed arrays back (deserialize.rs and the derived  *)
(* struct and union iterators).                                            *)
(*                                                                         *)
(* Values.  i32/i64 are integers, bool is a boolean, String / Vec<u8> are  *)
(* sequences of bytes, Option<T> is <<>> (None) or <<x>> (Some(x)),        *)
(* Vec<T> is a sequence, a struct is the tuple of its field values and an  *)
(* enum value is [variant |-> k, payload |-> p] (k is the 1-based position *)
(* of the variant, its type id is k - 1; a unit variant carries TRUE).     *)
(***************************************************************************)
EXTENDS Integers, Sequences, FiniteSets, TLC

VARIABLES
    overflow_checks,  \* the build panics on integer overflow (debug profile)
    ty,        \* the ArrowSerialize type the collection is encoded as
    input,     \* the elements serialized so far, in order
    array,     \* the mutable array (builder) of ty
    before,    \* the mutable array as it was before the last arrow_serialize
    rejected,  \* the element on which arrow_serialize returned Err, as <<v>>
    pc,        \* "build", "encode_err", "sealed", "read", "done",
               \* "decode_err", "panic", "flattened", "foreign"
    sealed,    \* the array produced by as_box, as <<arr>>
    column,    \* the array handed to the reader (sealed, possibly sliced)
    sliceAt,   \* the start of the slice taken of the sealed array, -1: none
    rdTy,      \* the ArrowDeserialize type the column is read as, as <<T>>
    iter,      \* the typed iterator over column
    output,    \* the elements the iterator has yielded so far
    flat,      \* the Chunk given to flatten and what it returned, as <<r>>
    foreign    \* a column built elsewhere and what reading it gave, as <<r>>

vars == <<overflow_checks, ty, input, array, before, rejected, pc, sealed,
          column, sliceAt, rdTy, iter, output, flat, foreign>>

\* ------------------------------------------------------------------ bounds
MaxLen == 3      \* elements serialized into one array
MaxChunk == 2    \* arrays in the Chunk given to flatten

\* ------------------------------------------------------- Rust field types
TI32 == [t |-> "i32"]
TI64 == [t |-> "i64"]
TBool == [t |-> "bool"]
TString == [t |-> "String"]
TLargeString == [t |-> "LargeString"]
TFixedSizeBinary(n) == [t |-> "FixedSizeBinary", size |-> n]
TOption(T) == [t |-> "Option", of |-> T]
TVec(T) == [t |-> "Vec", of |-> T]
TLargeVec(T) == [t |-> "LargeVec", of |-> T]
TFixedSizeVec(T, n) == [t |-> "FixedSizeVec", of |-> T, size |-> n]
TStruct(fs) == [t |-> "Struct", fields |-> fs]
\* a derived struct with #[arrow_field(transparent)] and a single field
TTransparent(f) == [t |-> "Transparent", fields |-> <<f>>]
TEnum(dense, vs) == [t |-> "Enum", is_dense |-> dense, variants |-> vs]

\* a struct field of the derive input
DeriveField(name, T) == [name |-> name, field_type |-> T]

\* a variant of the derive input: a unit variant is given the type bool
DeriveVariant(name, is_unit, T) ==
    [name |-> name, is_unit |-> is_unit,
     field_type |-> IF is_unit THEN TBool ELSE T]

\* ------------------------------------------------------------ field.rs
RECURSIVE data_type(_)
RECURSIVE field(_, _)

\* an is_nullable() that no impl overrides
never_nullable(T) == FALSE

is_nullable(T) == T.t = "Option"

\* a field() that takes every field for not nullable
field_not_nullable(T, name) ==
    [name |-> name, data_type |-> data_type(T), is_nullable |-> FALSE]

field(T, name) ==
    [name |-> name, data_type |-> data_type(T), is_nullable |-> is_nullable(T)]

data_type(T) ==
    CASE T.t = "i32" -> [d |-> "Int32"]
      [] T.t = "i64" -> [d |-> "Int64"]
      [] T.t = "bool" -> [d |-> "Boolean"]
      [] T.t = "String" -> [d |-> "Utf8"]
      [] T.t = "LargeString" -> [d |-> "LargeUtf8"]
      [] T.t = "FixedSizeBinary" -> [d |-> "FixedSizeBinary", size |-> T.size]
      [] T.t = "Option" -> data_type(T.of)
      [] T.t = "Vec" -> [d |-> "List", item |-> field(T.of, "item")]
      [] T.t = "LargeVec" ->
            [d |-> "LargeList", item |-> field(T.of, "item")]
      [] T.t = "FixedSizeVec" ->
            [d |-> "FixedSizeList", item |-> field(T.of, "item"),
             size |-> T.size]
      [] T.t = "Transparent" -> data_type(T.fields[1].field_type)
      [] T.t = "Struct" ->
            [d |-> "Struct",
             fields |-> [i \in DOMAIN T.fields |->
                            field(T.fields[i].field_type, T.fields[i].name)]]
      [] T.t = "Enum" ->
            [d |-> "Union",
             fields |-> [i \in DOMAIN T.variants |->
                            field(T.variants[i].field_type, T.variants[i].name)],
             mode |-> IF T.is_dense THEN "Dense" ELSE "Sparse"]

\* T: ArrowField, by the impls of field.rs (the blanket impls ask only that
\* the wrapped type is an ArrowField) and of the derives
RECURSIVE ArrowField(_)
ArrowField(T) ==
    CASE T.t \in {"Option", "Vec", "LargeVec", "FixedSizeVec"} ->
            ArrowField(T.of)
      [] T.t \in {"Struct", "Transparent"} ->
            \A i \in DOMAIN T.fields : ArrowField(T.fields[i].field_type)
      [] T.t = "Enum" ->
            \A i \in DOMAIN T.variants : ArrowField(T.variants[i].field_type)
      [] OTHER -> TRUE

\* derive-internal, parse.rs: the ParseTree of a type path, or the failed
\* assert!(!is_nullable) of an Option met under an Option
RECURSIVE parse(_, _)
parse(T, nullable) ==
    CASE T.t = "Option" ->
            IF nullable THEN [ok |-> FALSE, tree |-> <<>>]
                        ELSE parse(T.of, TRUE)
      [] T.t = "Vec" ->
            LET boxed(arg) ==
                    IF arg.ok
                    THEN [ok |-> TRUE,
                          tree |-> [vec |-> <<arg.tree>>, nullable |-> nullable]]
                    ELSE arg
            IN  boxed(parse(T.of, FALSE))
      [] OTHER -> [ok |-> TRUE, tree |-> [type |-> T.t, nullable |-> nullable]]

\* ------------------------------------------------- validity (MutableBitmap)
NoValidity == [has |-> FALSE, bits |-> <<>>]

\* init_validity: every earlier position set, the new (last) one unset
init_validity(len) == [has |-> TRUE, bits |-> [i \in 1..len |-> i # len]]

\* match &mut self.validity { Some(validity) => validity.push(true), None => {} }
push_valid_bit(v) == IF v.has THEN [v EXCEPT !.bits = Append(@, TRUE)] ELSE v

\* match &mut self.validity { Some(v) => v.push(false), None => self.init_validity() }
push_null_bit(v, len) ==
    IF v.has THEN [v EXCEPT !.bits = Append(@, FALSE)] ELSE init_validity(len)

Last(s) == s[Len(s)]

\* --------------------------------------------------------- mutable arrays
RECURSIVE new_array(_)
new_array(T) ==
    CASE T.t \in {"i32", "i64"} ->
            [k |-> "Primitive", data_type |-> data_type(T), values |-> <<>>,
             validity |-> NoValidity]
      [] T.t = "bool" ->
            [k |-> "Boolean", data_type |-> data_type(T), values |-> <<>>,
             validity |-> NoValidity]
      [] T.t \in {"String", "LargeString"} ->
            [k |-> "Utf8", data_type |-> data_type(T), offsets |-> <<0>>,
             values |-> <<>>, validity |-> NoValidity]
      [] T.t = "FixedSizeBinary" ->
            [k |-> "FixedSizeBinary", data_type |-> data_type(T),
             size |-> T.size, values |-> <<>>, validity |-> NoValidity]
      [] T.t = "Option" -> new_array(T.of)
      [] T.t \in {"Vec", "LargeVec"} ->
            [k |-> "List", data_type |-> data_type(T), offsets |-> <<0>>,
             values |-> new_array(T.of), validity |-> NoValidity]
      [] T.t = "FixedSizeVec" ->
            [k |-> "FixedSizeList", data_type |-> data_type(T),
             size |-> T.size, values |-> new_array(T.of),
             validity |-> NoValidity]
      [] T.t = "Transparent" -> new_array(T.fields[1].field_type)
      [] T.t = "Struct" ->
            [k |-> "Struct", data_type |-> data_type(T),
             fields |-> [i \in DOMAIN T.fields |->
                            new_array(T.fields[i].field_type)],
             validity |-> NoValidity]
      [] T.t = "Enum" ->
            [k |-> "Union", data_type |-> data_type(T),
             is_dense |-> T.is_dense,
             fields |-> [i \in DOMAIN T.variants |->
                            new_array(T.variants[i].field_type)],
             types |-> <<>>, offsets |-> <<>>]

\* MutableArray::len
RECURSIVE len(_)
len(a) ==
    CASE a.k \in {"Primitive", "Boolean"} -> Len(a.values)
      [] a.k \in {"Utf8", "List"} -> Len(a.offsets) - 1
      [] a.k = "FixedSizeBinary" -> Len(a.values) \div a.size
      [] a.k = "FixedSizeList" -> len(a.values) \div a.size
      [] a.k = "Struct" -> len(a.fields[1])
      [] a.k = "Union" -> len(a.fields[1])

Zeros(n) == [i \in 1..n |-> 0]

\* MutableArray::push_null
RECURSIVE push_null(_)
RECURSIVE push_nulls(_, _)
push_nulls(a, n) == IF n = 0 THEN a ELSE push_nulls(push_null(a), n - 1)

\* a null struct that leaves the field arrays as they are
keep_fields(a) == a.fields

\* #( <#mutable_field_array_types as MutableArray>::push_null(&mut self.#field_idents); )*
push_null_fields(a) == [i \in DOMAIN a.fields |-> push_null(a.fields[i])]

push_null(a) ==
    CASE a.k = "Primitive" ->
            [a EXCEPT !.values = Append(@, 0),
                      !.validity = push_null_bit(@, Len(a.values) + 1)]
      [] a.k = "Boolean" ->
            [a EXCEPT !.values = Append(@, FALSE),
                      !.validity = push_null_bit(@, Len(a.values) + 1)]
      [] a.k = "Utf8" ->
            [a EXCEPT !.offsets = Append(@, Last(a.offsets)),
                      !.validity = push_null_bit(@, Len(a.offsets))]
      [] a.k = "FixedSizeBinary" ->
            [a EXCEPT !.values = @ \o Zeros(a.size),
                      !.validity =
                          push_null_bit(@, (Len(a.values) + a.size) \div a.size)]
      [] a.k = "List" ->
            [a EXCEPT !.offsets = Append(@, Last(a.offsets)),
                      !.validity = push_null_bit(@, Len(a.offsets))]
      [] a.k = "FixedSizeList" ->
            LET vs == push_nulls(a.values, a.size)
            IN  [a EXCEPT !.values = vs,
                          !.validity = push_null_bit(@, len(vs) \div a.size)]
      [] a.k = "Struct" ->
            LET fs == push_null_fields(a)
            IN  [a EXCEPT !.fields = fs,
                          !.validity = push_null_bit(@, len(fs[1]))]
      [] a.k = "Union" ->
            IF a.is_dense
            THEN [a EXCEPT !.types = Append(@, 0),
                           !.fields[1] = push_null(@)]
            ELSE [a EXCEPT !.types = Append(@, 0),
                           !.fields = [i \in DOMAIN a.fields |->
                                          push_null(a.fields[i])]]

\* ------------------------------------------------------------ serialize.rs
\* the Result of a serialization, with the mutable array as it is left
\* (Ok, Err(ArrowError), or a panic that unwinds out of the serialization)
Ok(a) == [ok |-> TRUE, panic |-> FALSE, array |-> a]
Err(a) == [ok |-> FALSE, panic |-> FALSE, array |-> a]
Abort(a) == [ok |-> FALSE, panic |-> TRUE, array |-> a]
\* the ? operator: the failure r leaves the enclosing function, a is left behind
Try(r, a) == [r EXCEPT !.array = a]

RECURSIVE arrow_serialize(_, _, _)
RECURSIVE serialize_items(_, _, _, _)
RECURSIVE serialize_fields(_, _, _, _)

\* MutablePrimitiveArray / MutableBooleanArray :: try_push(Some(v))
primitive_try_push(a, v) ==
    Ok([a EXCEPT !.values = Append(@, v), !.validity = push_valid_bit(@)])

\* MutableUtf8Array::try_push(Some(v))
utf8_try_push(a, v) ==
    Ok([a EXCEPT !.values = @ \o v,
                 !.offsets = Append(@, Last(a.offsets) + Len(v)),
                 !.validity = push_valid_bit(@)])

\* MutableFixedSizeBinaryArray::try_push(Some(v)): every item is of its size
fixed_size_binary_try_push(a, v) ==
    IF a.size # Len(v)
    THEN Err(a)
    ELSE Ok([a EXCEPT !.values = @ \o v, !.validity = push_valid_bit(@)])

\* MutableListArray::try_push_valid: the next offset is the child's length
list_try_push_valid(a) ==
    Ok([a EXCEPT !.offsets = Append(@, len(a.values)),
                 !.validity = push_valid_bit(@)])

\* MutableFixedSizeListArray::try_push_valid
fixed_size_list_try_push_valid(a) ==
    IF len(a.values) % a.size # 0
    THEN Err(a)
    ELSE Ok([a EXCEPT !.validity = push_valid_bit(@)])

\* for i in v.iter() { <T as ArrowSerialize>::arrow_serialize(i, values)?; }
serialize_items(T, items, i, values) ==
    IF i > Len(items)
    THEN Ok(values)
    ELSE LET r == arrow_serialize(T, items[i], values)
         IN  IF r.ok THEN serialize_items(T, items, i + 1, r.array) ELSE r

\* ArrowSerialize for Vec<T>
vec_arrow_serialize(T, v, a) ==
    LET r == serialize_items(T.of, v, 1, a.values)
        a1 == [a EXCEPT !.values = r.array]
    IN  IF r.ok THEN list_try_push_valid(a1) ELSE Try(r, a1)

\* ArrowSerialize for LargeVec<T>
large_vec_arrow_serialize(T, v, a) ==
    LET r == serialize_items(T.of, v, 1, a.values)
        a1 == [a EXCEPT !.values = r.array]
    IN  IF r.ok THEN list_try_push_valid(a1) ELSE Try(r, a1)

\* ArrowSerialize for FixedSizeVec<T, SIZE>
fixed_size_vec_arrow_serialize(T, v, a) ==
    LET r == serialize_items(T.of, v, 1, a.values)
        a1 == [a EXCEPT !.values = r.array]
    IN  IF r.ok THEN fixed_size_list_try_push_valid(a1) ELSE Try(r, a1)

\* ------------------------------------------- derive_struct.rs (serialize)
\* #( <#field_types>::arrow_serialize(i.#field_names.borrow(), &mut self.#field_idents)?; )*
serialize_fields(T, v, i, a) ==
    IF i > Len(T.fields)
    THEN Ok(a)
    ELSE LET r == arrow_serialize(T.fields[i].field_type, v[i], a.fields[i])
             a1 == [a EXCEPT !.fields[i] = r.array]
         IN  IF r.ok THEN serialize_fields(T, v, i + 1, a1) ELSE Try(r, a1)

\* TryPush<Option<__T>>::try_push of the derived mutable struct array
struct_try_push(T, item, a) ==
    IF item = <<>>
    THEN Ok(push_null(a))
    ELSE LET r == serialize_fields(T, item[1], 1, a)
         IN  IF r.ok
             THEN Ok([r.array EXCEPT !.validity = push_valid_bit(@)])
             ELSE r

\* --------------------------------------------- derive_enum.rs (serialize)
\* one arm of try_push_match_blocks, dense mode; self.#name.len() - 1 is a
\* usize subtraction: at length 0 it panics where overflow is checked and
\* wraps elsewhere, and the wrapped value cast to i32 is -1
dense_try_push(T, v, a) ==
    LET k == v.variant
        r == arrow_serialize(T.variants[k].field_type,
                             IF T.variants[k].is_unit THEN TRUE ELSE v.payload,
                             a.fields[k])
        a1 == [a EXCEPT !.fields[k] = r.array]
    IN  IF r.ok
        THEN IF len(a1.fields[k]) = 0 /\ overflow_checks
             THEN Abort([a1 EXCEPT !.types = Append(@, k - 1)])
             ELSE Ok([a1 EXCEPT !.types = Append(@, k - 1),
                                !.offsets = Append(@, len(a1.fields[k]) - 1)])
        ELSE Try(r, a1)

\* a sparse arm that pushes no null into the other variants
sparse_try_push_unpadded(T, v, a) ==
    LET k == v.variant
        r == arrow_serialize(T.variants[k].field_type,
                             IF T.variants[k].is_unit THEN TRUE ELSE v.payload,
                             a.fields[k])
        a1 == [a EXCEPT !.fields[k] = r.array]
    IN  IF r.ok THEN Ok([a1 EXCEPT !.types = Append(@, k - 1)])
                ELSE Try(r, a1)

\* one arm of try_push_match_blocks, sparse mode
sparse_try_push(T, v, a) ==
    LET k == v.variant
        r == arrow_serialize(T.variants[k].field_type,
                             IF T.variants[k].is_unit THEN TRUE ELSE v.payload,
                             a.fields[k])
        a1 == [a EXCEPT !.fields[k] = r.array]
    IN  IF r.ok
        THEN Ok([a1 EXCEPT !.fields = [j \in DOMAIN a1.fields |->
                                          IF j # k THEN push_null(a1.fields[j])
                                                   ELSE a1.fields[j]],
                           !.types = Append(@, k - 1)])
        ELSE Try(r, a1)

\* TryPush<Option<__T>>::try_push of the derived mutable union array
union_try_push(T, item, a) ==
    IF item = <<>>
    THEN Ok(push_null(a))
    ELSE IF T.is_dense THEN dense_try_push(T, item[1], a)
                       ELSE sparse_try_push(T, item[1], a)

\* ArrowSerialize::arrow_serialize
arrow_serialize(T, v, a) ==
    CASE T.t \in {"i32", "i64", "bool"} -> primitive_try_push(a, v)
      [] T.t \in {"String", "LargeString"} -> utf8_try_push(a, v)
      [] T.t = "FixedSizeBinary" -> fixed_size_binary_try_push(a, v)
      [] T.t = "Option" ->
            IF v = <<>> THEN Ok(push_null(a))
                        ELSE arrow_serialize(T.of, v[1], a)
      [] T.t = "Vec" -> vec_arrow_serialize(T, v, a)
      [] T.t = "LargeVec" -> large_vec_arrow_serialize(T, v, a)
      [] T.t = "FixedSizeVec" -> fixed_size_vec_arrow_serialize(T, v, a)
      [] T.t = "Transparent" ->
            arrow_serialize(T.fields[1].field_type, v[1], a)
      [] T.t = "Struct" -> struct_try_push(T, <<v>>, a)
      [] T.t = "Enum" -> union_try_push(T, <<v>>, a)

\* ------------------------------------------------ sealed arrays (as_box)
\* MutableArray::as_box: buffers become immutable, children are sealed in
\* turn; a dense union hands over its offsets, a sparse union has none
RECURSIVE as_box(_)
as_box(a) ==
    CASE a.k \in {"Primitive", "Boolean", "Utf8", "FixedSizeBinary"} -> a
      [] a.k \in {"List", "FixedSizeList"} ->
            [a EXCEPT !.values = as_box(@)]
      [] a.k = "Struct" ->
            [k |-> "Struct", data_type |-> a.data_type,
             values |-> [i \in DOMAIN a.fields |-> as_box(a.fields[i])],
             validity |-> a.validity]
      [] a.k = "Union" ->
            [k |-> "Union", data_type |-> a.data_type,
             types |-> a.types,
             fields |-> [i \in DOMAIN a.fields |-> as_box(a.fields[i])],
             offsets |-> IF a.is_dense THEN <<a.offsets>> ELSE <<>>,
             offset |-> 0]

Sub(s, off, n) == SubSeq(s, off + 1, off + n)

\* a slice that leaves the validity bitmap whole
keep_validity(v, off, n) == v

\* the validity bitmap of a slice: validity.slice(offset, length)
slice_validity(v, off, n) ==
    IF v.has THEN [v EXCEPT !.bits = Sub(@, off, n)] ELSE v

\* Array::slice(offset, length)
RECURSIVE slice(_, _, _)
slice(arr, off, n) ==
    CASE arr.k \in {"Primitive", "Boolean"} ->
            [arr EXCEPT !.values = Sub(@, off, n),
                        !.validity = slice_validity(@, off, n)]
      [] arr.k = "Utf8" ->
            [arr EXCEPT !.offsets = Sub(@, off, n + 1),
                        !.validity = slice_validity(@, off, n)]
      [] arr.k = "FixedSizeBinary" ->
            [arr EXCEPT !.values = Sub(@, off * arr.size, n * arr.size),
                        !.validity = slice_validity(@, off, n)]
      [] arr.k = "List" ->
            [arr EXCEPT !.offsets = Sub(@, off, n + 1),
                        !.validity = slice_validity(@, off, n)]
      [] arr.k = "FixedSizeList" ->
            [arr EXCEPT !.values = slice(@, off * arr.size, n * arr.size),
                        !.validity = slice_validity(@, off, n)]
      [] arr.k = "Struct" ->
            [arr EXCEPT !.values = [i \in DOMAIN arr.values |->
                                       slice(arr.values[i], off, n)],
                        !.validity = slice_validity(@, off, n)]
      [] arr.k = "Union" ->
            [arr EXCEPT !.types = Sub(@, off, n),
                        !.offsets = IF arr.offsets = <<>> THEN <<>>
                                    ELSE <<Sub(arr.offsets[1], off, n)>>,
                        !.offset = @ + off]

\* the bounds check of Array::slice: offset + length within every buffer cut
RECURSIVE slice_in_bounds(_, _, _)
slice_in_bounds(arr, off, n) ==
    CASE arr.k \in {"Primitive", "Boolean"} -> off + n <= Len(arr.values)
      [] arr.k \in {"Utf8", "List"} -> off + n + 1 <= Len(arr.offsets)
      [] arr.k = "FixedSizeBinary" -> (off + n) * arr.size <= Len(arr.values)
      [] arr.k = "FixedSizeList" ->
            slice_in_bounds(arr.values, off * arr.size, n * arr.size)
      [] arr.k = "Struct" ->
            \A i \in DOMAIN arr.values : slice_in_bounds(arr.values[i], off, n)
      [] arr.k = "Union" ->
            /\ off + n <= Len(arr.types)
            /\ arr.offsets = <<>> \/ off + n <= Len(arr.offsets[1])

\* Array::len
RECURSIVE array_len(_)
array_len(arr) ==
    CASE arr.k \in {"Primitive", "Boolean"} -> Len(arr.values)
      [] arr.k \in {"Utf8", "List"} -> Len(arr.offsets) - 1
      [] arr.k = "FixedSizeBinary" -> Len(arr.values) \div arr.size
      [] arr.k = "FixedSizeList" -> array_len(arr.values) \div arr.size
      [] arr.k = "Struct" -> array_len(arr.values[1])
      [] arr.k = "Union" -> Len(arr.types)

\* ---------------------------------------------------------- deserialize.rs
\* what Iterator::next gives: an item, the end, or a panic that unwinds
Yield(item, it) == [ok |-> TRUE, some |-> TRUE, item |-> item, it |-> it]
End(it) == [ok |-> TRUE, some |-> FALSE, item |-> <<>>, it |-> it]
Panic(it) == [ok |-> FALSE, some |-> FALSE, item |-> <<>>, it |-> it]

\* a deserialized value, or a panic that unwinds
Val(v) == [ok |-> TRUE, v |-> v]
Unwound == [ok |-> FALSE, v |-> <<>>]

RECURSIVE array_type(_)
RECURSIVE iter_from_array_ref(_, _)
RECURSIVE next(_, _)
RECURSIVE arrow_deserialize(_, _)
RECURSIVE arrow_deserialize_internal(_, _)
RECURSIVE collect(_, _, _)

\* ArrowDeserialize::ArrayType, as the concrete array type downcast to
array_type(T) ==
    CASE T.t = "i32" -> "PrimitiveArray<i32>"
      [] T.t = "i64" -> "PrimitiveArray<i64>"
      [] T.t = "bool" -> "BooleanArray"
      [] T.t = "String" -> "Utf8Array<i32>"
      [] T.t = "LargeString" -> "Utf8Array<i64>"
      [] T.t = "FixedSizeBinary" -> "FixedSizeBinaryArray"
      [] T.t = "Option" -> array_type(T.of)
      [] T.t = "Vec" -> "ListArray<i32>"
      [] T.t = "LargeVec" -> "ListArray<i64>"
      [] T.t = "FixedSizeVec" -> "FixedSizeListArray"
      [] T.t = "Transparent" -> array_type(T.fields[1].field_type)
      [] T.t = "Struct" -> "StructArray"
      [] T.t = "Enum" -> "UnionArray"

\* the concrete type behind a &dyn Array (what as_any() reveals)
as_any(arr) ==
    CASE arr.k = "Primitive" ->
            IF arr.data_type.d = "Int32" THEN "PrimitiveArray<i32>"
                                         ELSE "PrimitiveArray<i64>"
      [] arr.k = "Boolean" -> "BooleanArray"
      [] arr.k = "Utf8" ->
            IF arr.data_type.d = "Utf8" THEN "Utf8Array<i32>"
                                        ELSE "Utf8Array<i64>"
      [] arr.k = "FixedSizeBinary" -> "FixedSizeBinaryArray"
      [] arr.k = "List" ->
            IF arr.data_type.d = "List" THEN "ListArray<i32>"
                                        ELSE "ListArray<i64>"
      [] arr.k = "FixedSizeList" -> "FixedSizeListArray"
      [] arr.k = "Struct" -> "StructArray"
      [] arr.k = "Union" -> "UnionArray"

\* ArrowArray::iter_from_array_ref: downcast_ref().unwrap(), then the iterator
iter_from_array_ref(T, arr) ==
    IF as_any(arr) # array_type(T)
    THEN Unwound
    ELSE CASE T.t = "Option" -> iter_from_array_ref(T.of, arr)
           [] T.t = "Transparent" ->
                iter_from_array_ref(T.fields[1].field_type, arr)
           [] T.t = "Struct" ->
                IF Len(arr.values) < Len(T.fields)
                THEN Unwound
                ELSE LET fs == [i \in DOMAIN T.fields |->
                                   iter_from_array_ref(T.fields[i].field_type,
                                                       arr.values[i])]
                     IN  IF \E i \in DOMAIN fs : ~fs[i].ok
                         THEN Unwound
                         ELSE Val([k |-> "StructIter",
                                   fields |-> [i \in DOMAIN fs |-> fs[i].v],
                                   has_validity |-> arr.validity.has,
                                   validity_iter |->
                                       [bits |-> arr.validity.bits, index |-> 0]])
           [] T.t = "Enum" ->
                IF Len(arr.fields) < Len(T.variants)
                THEN Unwound
                ELSE LET fs == [i \in DOMAIN T.variants |->
                                   iter_from_array_ref(T.variants[i].field_type,
                                                       arr.fields[i])]
                     IN  IF \E i \in DOMAIN fs : ~fs[i].ok
                         THEN Unwound
                         ELSE Val([k |-> "UnionIter",
                                   fields |-> [i \in DOMAIN fs |-> fs[i].v],
                                   types_iter |->
                                       [types |-> arr.types, index |-> 0]])
           [] OTHER -> Val([k |-> "ArrayIter", array |-> arr, index |-> 0])

\* a validity check that takes every slot for valid
always_valid(arr, i) == TRUE

is_valid(arr, i) == ~arr.validity.has \/ arr.validity.bits[i + 1]

\* the value of slot i of an arrow2 array, as its iterator hands it out
value(arr, i) ==
    CASE arr.k \in {"Primitive", "Boolean"} -> arr.values[i + 1]
      [] arr.k = "Utf8" ->
            SubSeq(arr.values, arr.offsets[i + 1] + 1, arr.offsets[i + 2])
      [] arr.k = "FixedSizeBinary" -> Sub(arr.values, i * arr.size, arr.size)
      [] arr.k = "List" ->
            slice(arr.values, arr.offsets[i + 1],
                  arr.offsets[i + 2] - arr.offsets[i + 1])
      [] arr.k = "FixedSizeList" -> slice(arr.values, i * arr.size, arr.size)

\* the iterators of the arrow2 arrays (values zipped with the validity)
array_iter_next(it) ==
    IF it.index >= array_len(it.array)
    THEN End(it)
    ELSE Yield(IF is_valid(it.array, it.index)
               THEN <<value(it.array, it.index)>> ELSE <<>>,
               [it EXCEPT !.index = @ + 1])

\* ----------------------------------------- derive_struct.rs (deserialize)
\* the child iterators, each stepped once
step_fields(T, it) ==
    [i \in DOMAIN it.fields |-> next(T.fields[i].field_type, it.fields[i])]

\* return_next: Some(struct) when every child yields, None otherwise
struct_return_next(T, it) ==
    LET build(ds, it1) ==
            IF \E i \in DOMAIN ds : ~ds[i].ok
            THEN Panic(it1)
            ELSE Yield(<<[i \in DOMAIN ds |-> ds[i].v]>>, it1)
        stepped(rs) ==
            LET it1 == [it EXCEPT !.fields = [i \in DOMAIN rs |-> rs[i].it]]
            IN  IF \E i \in DOMAIN rs : ~rs[i].ok
                THEN Panic(it1)
                ELSE IF \A i \in DOMAIN rs : rs[i].some
                     THEN build([i \in DOMAIN rs |->
                                    arrow_deserialize_internal(
                                        T.fields[i].field_type, rs[i].item)],
                                it1)
                     ELSE Yield(<<>>, it1)
    IN  stepped(step_fields(T, it))

\* a consume_next that leaves the iterators of the fields where they are
struct_skip_next(T, it) == Yield(<<>>, it)

\* consume_next: let _ = self.#field_idents.next();
struct_consume_next(T, it) ==
    LET stepped(rs) ==
            LET it1 == [it EXCEPT !.fields = [i \in DOMAIN rs |-> rs[i].it]]
            IN  IF \E i \in DOMAIN rs : ~rs[i].ok THEN Panic(it1)
                                                 ELSE Yield(<<>>, it1)
    IN  stepped(step_fields(T, it))

\* Iterator::next of the derived struct iterator
struct_iter_next(T, it) ==
    IF ~it.has_validity
    THEN LET returned(r) == IF r.ok /\ r.item = <<>> THEN End(r.it) ELSE r
         IN  returned(struct_return_next(T, it))
    ELSE LET v == it.validity_iter
             it1 == [it EXCEPT !.validity_iter.index = @ + 1]
         IN  IF v.index >= Len(v.bits)
             THEN End(it)
             ELSE IF v.bits[v.index + 1]
                  THEN struct_return_next(T, it1)
                  ELSE struct_consume_next(T, it1)

\* ------------------------------------------- derive_enum.rs (deserialize)
\* an arm that takes the entry of a unit variant without looking at it
variant_next_unchecked(T, k, it) ==
    LET V == T.variants[k]
        wrap(d, it1) ==
            IF ~d.ok
            THEN Panic(it1)
            ELSE Yield(IF d.v = <<>> THEN <<>>
                       ELSE <<[variant |-> k, payload |-> d.v[1]]>>, it1)
        stepped(r) ==
            LET it1 == [it EXCEPT !.fields[k] = r.it]
            IN  IF ~r.ok \/ ~r.some
                THEN Panic(it1)
                ELSE IF V.is_unit
                     THEN Yield(<<[variant |-> k, payload |-> TRUE]>>, it1)
                     ELSE wrap(arrow_deserialize(V.field_type, r.item), it1)
    IN  stepped(next(V.field_type, it.fields[k]))

\* one arm of iter_next_match_block, the variant's own iterator stepped
variant_next(T, k, it) ==
    LET V == T.variants[k]
        wrap(d, it1) ==
            IF ~d.ok
            THEN Panic(it1)
            ELSE Yield(IF d.v = <<>> THEN <<>>
                       ELSE <<[variant |-> k, payload |-> d.v[1]]>>, it1)
        stepped(r) ==
            LET it1 == [it EXCEPT !.fields[k] = r.it]
            IN  IF ~r.ok \/ ~r.some
                THEN Panic(it1)
                ELSE IF V.is_unit
                     THEN IF r.item = <<>> \/ ~r.item[1]
                          THEN Panic(it1)
                          ELSE Yield(<<[variant |-> k, payload |-> TRUE]>>, it1)
                     ELSE wrap(arrow_deserialize(V.field_type, r.item), it1)
    IN  stepped(next(V.field_type, it.fields[k]))

\* sparse arms that leave the iterators of the other variants alone
sparse_no_consume(T, k, it) == [ok |-> TRUE, it |-> it]

\* the sparse arms first consume the iterators of the other variants
sparse_consume(T, k, it) ==
    LET consumed(rs) ==
            [ok |-> \A j \in DOMAIN rs : rs[j].ok,
             it |-> [it EXCEPT !.fields = [j \in DOMAIN rs |-> rs[j].it]]]
    IN  consumed([j \in DOMAIN it.fields |->
                     IF j # k THEN next(T.variants[j].field_type, it.fields[j])
                              ELSE End(it.fields[j])])

\* Iterator::next of the derived union iterator
union_iter_next(T, it) ==
    LET ti == it.types_iter
        it1 == [it EXCEPT !.types_iter.index = @ + 1]
        k == ti.types[ti.index + 1] + 1
        arm(c) == IF c.ok THEN variant_next(T, k, c.it) ELSE Panic(c.it)
    IN  IF ti.index >= Len(ti.types)
        THEN End(it)
        ELSE IF k \notin DOMAIN T.variants
             THEN Panic(it1)
             ELSE arm(IF T.is_dense THEN [ok |-> TRUE, it |-> it1]
                                    ELSE sparse_consume(T, k, it1))

\* Iterator::next of <&T::ArrayType as IntoIterator>::IntoIter
next(T, it) ==
    CASE T.t = "Option" -> next(T.of, it)
      [] T.t = "Transparent" -> next(T.fields[1].field_type, it)
      [] T.t = "Struct" -> struct_iter_next(T, it)
      [] T.t = "Enum" -> union_iter_next(T, it)
      [] OTHER -> array_iter_next(it)

\* arrow_array_deserialize_iterator_internal(..).collect()
collect(T, it, acc) ==
    LET push(d, it1) == IF ~d.ok THEN Unwound
                                 ELSE collect(T, it1, Append(acc, d.v))
        stepped(r) ==
            IF ~r.ok
            THEN Unwound
            ELSE IF ~r.some
                 THEN Val(acc)
                 ELSE push(arrow_deserialize_internal(T, r.item), r.it)
    IN  stepped(next(T, it))

\* arrow_deserialize_vec_helper
arrow_deserialize_vec_helper(T, v) ==
    IF v = <<>>
    THEN Val(<<>>)
    ELSE LET collected(c) == IF ~c.ok THEN Unwound ELSE Val(<<c.v>>)
             iterate(i) == IF ~i.ok THEN Unwound
                                    ELSE collected(collect(T, i.v, <<>>))
         IN  iterate(iter_from_array_ref(T, v[1]))

\* ArrowDeserialize::arrow_deserialize
arrow_deserialize(T, v) ==
    CASE T.t = "Option" ->
            LET some(r) == IF ~r.ok THEN Unwound
                           ELSE IF r.v = <<>> THEN Val(<<>>) ELSE Val(<<r.v>>)
            IN  some(arrow_deserialize_internal(T, v))
      [] T.t \in {"Vec", "LargeVec", "FixedSizeVec"} ->
            arrow_deserialize_vec_helper(T.of, v)
      [] T.t = "Transparent" ->
            LET wrapped(r) == IF ~r.ok \/ r.v = <<>> THEN r
                              ELSE Val(<< <<r.v[1]>> >>)
            IN  wrapped(arrow_deserialize(T.fields[1].field_type, v))
      [] OTHER -> Val(v)

\* ArrowDeserialize::arrow_deserialize_internal: unwrap(), but for Option<T>
arrow_deserialize_internal(T, v) ==
    IF T.t = "Option"
    THEN arrow_deserialize(T.of, v)
    ELSE LET unwrap(r) == IF ~r.ok \/ r.v = <<>> THEN Unwound ELSE Val(r.v[1])
         IN  unwrap(arrow_deserialize(T, v))

\* ------------------------------------- the conversions from end to end
\* arrow_serialize_extend_internal: for i in into_iter { arrow_serialize(i, array)?; }
RECURSIVE extend_ignoring_errors(_, _, _, _)
\* a loop that drops the result of arrow_serialize and goes on
extend_ignoring_errors(T, vs, i, a) ==
    IF i > Len(vs)
    THEN Ok(a)
    ELSE extend_ignoring_errors(T, vs, i + 1, arrow_serialize(T, vs[i], a).array)

RECURSIVE arrow_serialize_extend_internal(_, _, _, _)
arrow_serialize_extend_internal(T, vs, i, a) ==
    IF i > Len(vs)
    THEN Ok(a)
    ELSE LET r == arrow_serialize(T, vs[i], a)
         IN  IF r.ok THEN arrow_serialize_extend_internal(T, vs, i + 1, r.array)
                     ELSE r

\* a try_into_arrow on a builder that is not fresh: it already holds the
\* first element of the collection
try_into_arrow_reusing(T, vs) ==
    LET seeded(a) == arrow_serialize_extend_internal(T, vs, 1, a)
        sealed_of(r) == IF r.ok THEN Ok(as_box(r.array)) ELSE r
    IN  IF vs = <<>>
        THEN sealed_of(seeded(new_array(T)))
        ELSE sealed_of(seeded(arrow_serialize(T, vs[1], new_array(T)).array))

\* TryIntoArrow::try_into_arrow: the sealed array, an Err or a panic
try_into_arrow(T, vs) ==
    LET r == arrow_serialize_extend_internal(T, vs, 1, new_array(T))
    IN  IF r.ok THEN Ok(as_box(r.array)) ELSE r

\* TryIntoCollection::try_into_collection: the collection, or no collection
\* (an Err for a data type mismatch, or a panic)
try_into_collection(T, arr) ==
    IF data_type(T) # arr.data_type
    THEN Unwound
    ELSE LET iterate(it) == IF it.ok THEN collect(T, it.v, <<>>) ELSE Unwound
         IN  iterate(iter_from_array_ref(T, arr))

\* a to_physical_type that takes every data type for a Struct
always_struct(dt) == "Struct"

\* DataType::to_physical_type, for the data types of the model
to_physical_type(dt) ==
    CASE dt.d \in {"Int32", "Int64"} -> "Primitive"
      [] OTHER -> dt.d

\* FlattenChunk::flatten: the children of the one struct array of the chunk,
\* an Err, or the panic of downcast_ref::<StructArray>().unwrap()
flatten(arrays) ==
    IF Len(arrays) # 1
    THEN [ok |-> FALSE, panic |-> FALSE, arrays |-> <<>>]
    ELSE IF to_physical_type(arrays[1].data_type) # "Struct"
         THEN [ok |-> FALSE, panic |-> FALSE, arrays |-> <<>>]
         ELSE IF as_any(arrays[1]) # "StructArray"
              THEN [ok |-> FALSE, panic |-> TRUE, arrays |-> <<>>]
              ELSE [ok |-> TRUE, panic |-> FALSE, arrays |-> arrays[1].values]

\* ------------------------------------------- the types and values explored
\* test_deserialize.rs: S1 { a: i64 }, S2 { a: String }, S2 { a: LargeString }
S1 == TStruct(<<DeriveField("a", TI64)>>)
S2 == TStruct(<<DeriveField("a", TString)>>)
S3 == TStruct(<<DeriveField("a", TLargeString)>>)
\* a struct of two columns, one of them nullable
Pair == TStruct(<<DeriveField("a", TI32), DeriveField("b", TOption(TI32))>>)
\* a struct one of whose fields can fail to serialize
Rec == TStruct(<<DeriveField("a", TI32),
                 DeriveField("b", TFixedSizeBinary(2))>>)
\* test_struct.rs: Top { child_array: Vec<Option<Child>> }, Child { a1: i64 }
Child == TStruct(<<DeriveField("a1", TI64)>>)
Top == TStruct(<<DeriveField("child_array", TVec(TOption(Child)))>>)
\* bench.rs: #[arrow_field(transparent)] struct VecU32Struct(Vec<u32>), a
\* transparent tuple struct; here over an i32
Wrapper == TTransparent(DeriveField("field_0", TI32))
\* test_enum.rs: VAL1, VAL2(i32), VAL4(TestStruct), dense and sparse
Variants ==
    <<DeriveVariant("VAL1", TRUE, TBool), DeriveVariant("VAL2", FALSE, TI32),
      DeriveVariant("VAL4", FALSE, Child)>>
TestDenseEnum == TEnum(TRUE, Variants)
TestSparseEnum == TEnum(FALSE, Variants)
\* test_enum.rs, test_nested_unit_variant: an enum one of whose variants is
\* an enum
DenseChildEnum ==
    TEnum(TRUE, <<DeriveVariant("VAL1", TRUE, TBool),
                  DeriveVariant("VAL2", FALSE, TI32)>>)
SparseChildEnum == [DenseChildEnum EXCEPT !.is_dense = FALSE]
NestedVariants ==
    <<DeriveVariant("VAL1", TRUE, TBool),
      DeriveVariant("VAL5", FALSE, DenseChildEnum)>>
NestedDenseEnum == TEnum(TRUE, NestedVariants)
NestedSparseEnum == TEnum(FALSE, NestedVariants)
\* an enum whose first variant has a payload
PayloadFirstVariants ==
    <<DeriveVariant("VAL2", FALSE, TI32), DeriveVariant("VAL1", TRUE, TBool)>>
PayloadFirstDenseEnum == TEnum(TRUE, PayloadFirstVariants)
PayloadFirstSparseEnum == TEnum(FALSE, PayloadFirstVariants)

Types ==
    {TI32, TOption(TI32), TString, TLargeString, TFixedSizeBinary(2),
     TVec(TOption(TI32)), TFixedSizeVec(TI32, 2),
     S1, S2, S3, TOption(Pair), Rec, TOption(Rec), Top,
     TestDenseEnum, TestSparseEnum, NestedDenseEnum, NestedSparseEnum,
     TOption(TestDenseEnum), TOption(TestSparseEnum),
     TOption(TOption(TI32)), Wrapper,
     TOption(TVec(TI32)), TLargeVec(TOption(TI32)), TVec(DenseChildEnum),
     TVec(SparseChildEnum), TOption(PayloadFirstDenseEnum),
     TOption(PayloadFirstSparseEnum)}

IntVals == {1, 2}
ItemInts == {1}
ItemCounts == {0, 1, 2}
ByteVals == {<<>>, <<7>>}

RECURSIVE ValuesIn(_, _)
RECURSIVE Tuples(_, _, _)

\* the tuples of values of the first n fields of a struct
Tuples(fs, n, I) ==
    IF n = 0 THEN {<<>>}
    ELSE {Append(t, x) : t \in Tuples(fs, n - 1, I),
                         x \in ValuesIn(fs[n].field_type, I)}

\* the values of type T tried, with the integers drawn from I (the items
\* of a Vec draw theirs from ItemInts)
ValuesIn(T, I) ==
    CASE T.t \in {"i32", "i64"} -> I
      [] T.t = "bool" -> BOOLEAN
      [] T.t \in {"String", "LargeString"} -> ByteVals
      [] T.t = "FixedSizeBinary" ->
            {[i \in 1..m |-> 7] : m \in (T.size - 1)..(T.size + 1)}
      [] T.t = "Option" -> {<<>>} \cup {<<x>> : x \in ValuesIn(T.of, I)}
      [] T.t \in {"Vec", "LargeVec"} ->
            UNION {[1..m -> ValuesIn(T.of, ItemInts)] : m \in ItemCounts}
      [] T.t = "FixedSizeVec" ->
            [1..T.size -> ValuesIn(T.of, I)] \cup
            {[i \in 1..m |-> CHOOSE x \in ValuesIn(T.of, I) : TRUE] :
                 m \in 0..(2 * T.size)}
      [] T.t \in {"Struct", "Transparent"} ->
            Tuples(T.fields, Len(T.fields), I)
      [] T.t = "Enum" ->
            UNION {{[variant |-> k, payload |-> p] :
                        p \in IF T.variants[k].is_unit THEN {TRUE}
                              ELSE ValuesIn(T.variants[k].field_type, I)} :
                   k \in DOMAIN T.variants}

Values(T) == ValuesIn(T, IntVals)

\* the types a column encoded as T is read as: T itself, T with other leaf
\* types (i64 for String, Utf8 for LargeUtf8, ...), and T with an Option
\* added or removed at the top or inside
RECURSIVE Retype(_)
Retype(T) ==
    CASE T.t = "i32" -> TI64
      [] T.t = "i64" -> TString
      [] T.t = "bool" -> TI32
      [] T.t = "String" -> TLargeString
      [] T.t = "LargeString" -> TString
      [] T.t = "FixedSizeBinary" -> TFixedSizeBinary(T.size + 1)
      [] T.t = "LargeVec" -> TVec(T.of)
      [] T.t \in {"Option", "Vec", "FixedSizeVec"} ->
            [T EXCEPT !.of = Retype(@)]
      [] T.t \in {"Struct", "Transparent"} ->
            [T EXCEPT !.fields =
                [i \in DOMAIN @ |-> [@[i] EXCEPT !.field_type = Retype(@)]]]
      [] T.t = "Enum" ->
            [T EXCEPT !.variants =
                [i \in DOMAIN @ |->
                    IF i = Len(@) THEN [@[i] EXCEPT !.field_type = Retype(@)]
                    ELSE @[i]]]

ToggleOption(T) == IF T.t = "Option" THEN T.of ELSE TOption(T)

RECURSIVE ToggleInner(_)
ToggleInner(T) ==
    CASE T.t \in {"Vec", "LargeVec", "FixedSizeVec"} ->
            [T EXCEPT !.of = ToggleOption(@)]
      [] T.t = "Option" -> [T EXCEPT !.of = ToggleInner(@)]
      [] T.t \in {"Struct", "Transparent"} ->
            [T EXCEPT !.fields =
                [i \in DOMAIN @ |->
                    IF i = Len(@)
                    THEN [@[i] EXCEPT !.field_type = ToggleOption(@)]
                    ELSE @[i]]]
      [] T.t = "Enum" -> [T EXCEPT !.is_dense = ~@]
      [] OTHER -> T

ReadAs(T) == {T, Retype(T), ToggleOption(T), ToggleInner(T)}

\* ------------------------------------------------------------ the machine
Init ==
    /\ overflow_checks \in BOOLEAN
    /\ ty \in Types
    /\ input = <<>>
    /\ array = new_array(ty)
    /\ before = array
    /\ rejected = <<>>
    /\ pc = "build"
    /\ sealed = <<>>
    /\ column = <<>>
    /\ sliceAt = -1
    /\ rdTy = <<>>
    /\ iter = <<>>
    /\ output = <<>>
    /\ flat = <<>>
    /\ foreign = <<>>

\* one round of the loop of arrow_serialize_extend_internal:
\* <T as ArrowSerialize>::arrow_serialize(i, array)?
Serialize(v) ==
    /\ pc = "build"
    /\ Len(input) < MaxLen
    /\ LET r == arrow_serialize(ty, v, array)
       IN  /\ array' = r.array
           /\ before' = array
           /\ IF r.ok
              THEN input' = Append(input, v) /\ rejected' = rejected /\ pc' = pc
              ELSE input' = input /\ rejected' = <<v>>
                   /\ pc' = IF r.panic THEN "panic" ELSE "encode_err"
    /\ UNCHANGED <<overflow_checks, ty, sealed, column, sliceAt, rdTy, iter,
                   output, flat, foreign>>

\* try_into_arrow: Ok(arrow_serialize_to_mutable_array(..)?.as_box())
Seal ==
    /\ pc = "build"
    /\ sealed' = <<as_box(array)>>
    /\ column' = sealed'
    /\ pc' = "sealed"
    /\ UNCHANGED <<overflow_checks, ty, input, array, before, rejected,
                   sliceAt, rdTy, iter, output, flat, foreign>>

\* b.slice(i, n - i) of the sealed array
Slice(i) ==
    /\ pc = "sealed"
    /\ sliceAt = -1
    /\ i <= array_len(sealed[1])
    /\ sliceAt' = i
    /\ IF slice_in_bounds(sealed[1], i, array_len(sealed[1]) - i)
       THEN pc' = pc
            /\ column' = <<slice(sealed[1], i, array_len(sealed[1]) - i)>>
       ELSE pc' = "panic" /\ column' = column
    /\ UNCHANGED <<overflow_checks, ty, input, array, before, rejected,
                   sealed, rdTy, iter, output, flat, foreign>>

\* a comparison of the outermost kinds of the data types only
shallow_mismatch(rt, arr) == data_type(rt).d # arr.data_type.d

\* if &<ArrowType as ArrowField>::data_type() != arr.data_type()
schema_mismatch(rt, arr) == data_type(rt) # arr.data_type

\* arrow_array_deserialize_iterator_as_type::<Element, rt>(column)
Open(rt) ==
    /\ pc = "sealed"
    /\ rdTy' = <<rt>>
    /\ IF schema_mismatch(rt, column[1])
       THEN pc' = "decode_err" /\ iter' = iter
       ELSE LET i == iter_from_array_ref(rt, column[1])
            IN  IF i.ok THEN pc' = "read" /\ iter' = <<i.v>>
                        ELSE pc' = "panic" /\ iter' = iter
    /\ UNCHANGED <<overflow_checks, ty, input, array, before, rejected,
                   sealed, column, sliceAt, output, flat, foreign>>

\* one next() of the iterator, mapped through arrow_deserialize_internal
ReadNext ==
    /\ pc = "read"
    /\ LET mapped(d) ==
               IF ~d.ok THEN pc' = "panic" /\ output' = output
                        ELSE pc' = pc /\ output' = Append(output, d.v)
           stepped(r) ==
               IF ~r.ok
               THEN pc' = "panic" /\ iter' = iter /\ output' = output
               ELSE /\ iter' = <<r.it>>
                    /\ IF ~r.some
                       THEN pc' = "done" /\ output' = output
                       ELSE mapped(arrow_deserialize_internal(rdTy[1], r.item))
       IN  stepped(next(rdTy[1], iter[1]))
    /\ UNCHANGED <<overflow_checks, ty, input, array, before, rejected,
                   sealed, column, sliceAt, rdTy, flat, foreign>>

\* Chunk::new(vec![sealed; n]).flatten(), of the array as it was sealed
Flatten(n) ==
    /\ pc = "sealed"
    /\ sliceAt = -1
    /\ rdTy = <<>>
    /\ LET chunk == [i \in 1..n |-> sealed[1]]
       IN  flat' = <<[chunk |-> chunk, result |-> flatten(chunk)]>>
    /\ pc' = IF flat'[1].result.panic THEN "panic" ELSE "flattened"
    /\ UNCHANGED <<overflow_checks, ty, input, array, before, rejected,
                   sealed, column, sliceAt, rdTy, iter, output,
                   foreign>>

\* try_into_collection of a union column that another producer has built:
\* the sealed column, but with the payload false in slot j of the Bool
\* column of a unit variant
ReadForeign(j) ==
    /\ pc = "sealed"
    /\ sliceAt = -1
    /\ rdTy = <<>>
    /\ flat = <<>>
    /\ sealed[1].k = "Union"
    /\ \E k \in DOMAIN sealed[1].fields :
          LET T == IF ty.t = "Option" THEN ty.of ELSE ty
              c == sealed[1].fields[k]
              b == [sealed[1] EXCEPT !.fields[k].values[j] = FALSE]
          IN  /\ T.variants[k].is_unit
              /\ j \in DOMAIN c.values
              /\ c.values[j]
              /\ c.validity.has => c.validity.bits[j]
              /\ foreign' = <<[column |-> b,
                               result |-> try_into_collection(ty, b)]>>
    /\ pc' = "foreign"
    /\ UNCHANGED <<overflow_checks, ty, input, array, before, rejected,
                   sealed, column, sliceAt, rdTy, iter, output, flat>>

Next ==
    \/ \E v \in Values(ty) : Serialize(v)
    \/ Seal
    \/ \E i \in 0..MaxLen : Slice(i)
    \/ \E rt \in ReadAs(ty) : Open(rt)
    \/ ReadNext
    \/ \E n \in 0..MaxChunk : Flatten(n)
    \/ \E j \in 1..MaxLen : ReadForeign(j)

Spec == Init /\ [][Next]_vars

\* ------------------------------------------------------------ properties
\* v is a value every fixed-size slot of which has its declared length
RECURSIVE fits(_, _)
fits(T, v) ==
    CASE T.t = "FixedSizeBinary" -> Len(v) = T.size
      [] T.t = "FixedSizeVec" ->
            Len(v) = T.size /\ \A i \in DOMAIN v : fits(T.of, v[i])
      [] T.t = "Option" -> v = <<>> \/ fits(T.of, v[1])
      [] T.t \in {"Vec", "LargeVec"} -> \A i \in DOMAIN v : fits(T.of, v[i])
      [] T.t \in {"Struct", "Transparent"} ->
            \A i \in DOMAIN T.fields : fits(T.fields[i].field_type, v[i])
      [] T.t = "Enum" ->
            T.variants[v.variant].is_unit
            \/ fits(T.variants[v.variant].field_type, v.payload)
      [] OTHER -> TRUE

\* the types of the families the round trip is stated for: scalars, Option
\* scalars, structs, lists, fixed-size lists, dense and sparse unions
RoundTripTypes ==
    {TI32, TOption(TI32), TString, TLargeString, TFixedSizeBinary(2),
     TVec(TOption(TI32)), TFixedSizeVec(TI32, 2),
     S1, S2, S3, TOption(Pair), Rec, TOption(Rec), Top, TestDenseEnum, TestSparseEnum,
     NestedDenseEnum, NestedSparseEnum}

IsPrefix(s, t) == Len(s) <= Len(t) /\ s = SubSeq(t, 1, Len(s))

\* C1: a collection of values of a supported type, every fixed-size value
\* of the declared length, is serialized without error or panic, and reading
\* the array back as the same type never fails or panics, yields the
\* elements in order and ends with a collection equal to the input.
C1_RoundTrip ==
    (ty \in RoundTripTypes /\ \A i \in DOMAIN input : fits(ty, input[i])) =>
        /\ (rejected # <<>> => ~fits(ty, rejected[1]))
        /\ (rdTy = <<ty>> /\ sliceAt = -1) =>
              /\ pc \in {"read", "done"}
              /\ IsPrefix(output, input)
              /\ pc = "done" => output = input

\* C2: reading an array as a type whose data_type() is not the array's data
\* type returns an error: no iterator is built, nothing is read or yielded
\* and nothing panics.
C2_SchemaMismatch ==
    (rdTy # <<>> /\ data_type(rdTy[1]) # column[1].data_type) =>
        pc = "decode_err" /\ iter = <<>> /\ output = <<>>

\* a column of S1 { a: i64 } holding elements, read as S2 { a: String }
C2_Witness_S1AsS2 ==
    /\ ty = S1 /\ rdTy = <<S2>> /\ Len(input) >= 2
    /\ pc = "decode_err" /\ output = <<>>

\* every struct builder inside a has field arrays of one length, and a
\* validity bitmap, where it has one, of that length
RECURSIVE aligned(_)
aligned(a) ==
    CASE a.k \in {"List", "FixedSizeList"} -> aligned(a.values)
      [] a.k = "Struct" ->
            /\ \A i \in DOMAIN a.fields :
                  len(a.fields[i]) = len(a.fields[1]) /\ aligned(a.fields[i])
            /\ a.validity.has => Len(a.validity.bits) = len(a.fields[1])
      [] a.k = "Union" -> \A i \in DOMAIN a.fields : aligned(a.fields[i])
      [] OTHER -> TRUE

C4_StructAppendAllOrNothing ==
    (array.k = "Struct" /\ pc = "encode_err") =>
        /\ \A i \in DOMAIN array.fields : len(array.fields[i]) = Len(input)
        /\ array.validity = before.validity

\* C5: a value whose length differs from the declared size of its fixed-size
\* slot is never accepted: its serialization returns an error, and an error
\* leaves no column behind.
C5_FixedSizeViolationIsError ==
    /\ \A i \in DOMAIN input : fits(ty, input[i])
    /\ pc = "encode_err" => ~fits(ty, rejected[1]) /\ sealed = <<>>

\* C6: when arrow_serialize for FixedSizeVec<T, SIZE> rejects a collection,
\* the builder is as it was before the call: the child values builder holds
\* none of the items of the rejected collection.
C6_RejectedAppendCommitsNothing ==
    (array.k = "FixedSizeList" /\ rejected # <<>>) =>
        /\ pc = "encode_err"
        /\ len(array.values) = len(before.values)
        /\ array = before

\* the number of elements a builder holds (a union holds one per type id)
entries(a) == IF a.k = "Union" THEN Len(a.types) ELSE len(a)

\* the number of the first n type ids that are id
Tagged(types, id, n) == Cardinality({j \in 1..n : types[j] = id})

\* C7: after successful appends to a dense union builder, the child of every
\* variant holds as many entries as there are elements of its type id, and
\* every element has an offset: the index in the child of its type id at
\* which it was stored.
C7_DenseUnionInvariant ==
    (array.k = "Union" /\ array.is_dense /\ rejected = <<>>) =>
        /\ Len(array.types) = Len(input)
        /\ \A k \in DOMAIN array.fields :
              entries(array.fields[k]) =
                  Tagged(array.types, k - 1, Len(array.types))
        /\ Len(array.offsets) = Len(array.types)
        /\ \A i \in DOMAIN array.types :
              i \in DOMAIN array.offsets =>
                  array.offsets[i] = Tagged(array.types, array.types[i], i) - 1

\* the builder a holds a null at position i (from 1)
RECURSIVE null_at(_, _)
null_at(a, i) ==
    IF a.k = "Union"
    THEN /\ a.types[i] = 0
         /\ null_at(a.fields[1],
                    IF a.is_dense THEN Tagged(a.types, 0, i) ELSE i)
    ELSE a.validity.has /\ ~a.validity.bits[i]

\* the builder a of type T holds the value x at position i: for a union
\* child this compares the type id, for every other child the value read
\* from the sealed child at that position
stored(T, a, i, x) ==
    IF a.k = "Union"
    THEN a.types[i] = x.variant - 1
    ELSE LET it == iter_from_array_ref(T, as_box(a))
             c == collect(TOption(T), it.v, <<>>)
         IN  it.ok /\ c.ok /\ c.v[i] = <<x>>

\* C8: after appends of values and nulls to a sparse union builder, every
\* variant child holds one entry per append, as many as there are type ids;
\* at each position the child of the appended variant holds the payload
\* (TRUE for a unit variant) and every other child a null; a null element
\* has type id 0 and a null in every child; the builder and the sealed array
\* have no offsets.
C8_SparseUnionInvariant ==
    (array.k = "Union" /\ ~array.is_dense /\ rejected = <<>>) =>
        LET E == IF ty.t = "Option" THEN ty.of ELSE ty
            item(i) == IF ty.t = "Option" THEN input[i] ELSE <<input[i]>>
        IN  /\ Len(array.types) = Len(input)
            /\ array.offsets = <<>>
            /\ sealed # <<>> => sealed[1].offsets = <<>>
            /\ \A k \in DOMAIN array.fields :
                  entries(array.fields[k]) = Len(input)
            /\ \A i \in DOMAIN input :
                  /\ array.types[i] =
                        IF item(i) = <<>> THEN 0 ELSE item(i)[1].variant - 1
                  /\ \A k \in DOMAIN array.fields :
                        IF item(i) # <<>> /\ item(i)[1].variant = k
                        THEN stored(E.variants[k].field_type, array.fields[k],
                                    i, item(i)[1].payload)
                        ELSE null_at(array.fields[k], i)

\* a sparse builder after a payload variant, a null and a struct variant
C8_Witness_PaddedNull ==
    /\ ty = TOption(TestSparseEnum) /\ pc = "sealed"
    /\ input = <<<<[variant |-> 2, payload |-> 1]>>, <<>>,
                 <<[variant |-> 3, payload |-> <<2>>]>>>>
    /\ array.types = <<1, 0, 2>>
    /\ array.fields[2].values = <<1, 0, 0>>
    /\ array.fields[2].validity.bits = <<TRUE, FALSE, FALSE>>

\* vs encoded as T and the array decoded as T
round_trip(T, vs) ==
    LET e == try_into_arrow(T, vs)
    IN  IF e.ok THEN try_into_collection(T, e.array) ELSE Unwound

\* C9: a sequence of values of an enum, encoded with the enum in dense mode
\* and with the enum of the same variants in sparse mode and decoded from
\* each array, gives the same sequence both times: the sequence encoded.
\* (The sequence is the one the builder has accepted, followed by the value
\* it has failed on, if any.)
C9_DenseSparseEquivalence ==
    ty.t = "Enum" =>
        LET vs == input \o rejected
            dense == round_trip([ty EXCEPT !.is_dense = TRUE], vs)
            sparse == round_trip([ty EXCEPT !.is_dense = FALSE], vs)
        IN  /\ dense = sparse
            /\ dense = Val(vs)
            /\ (pc = "done" /\ rdTy = <<ty>> /\ sliceAt = -1) =>
                  Val(output) = round_trip(ty, input)

\* C10: the slice [i, n) of a sealed struct column of length n (a struct of
\* scalars, a nullable struct, a struct with a list of optional structs),
\* 0 <= i <= n, is taken without panic and decodes, without panic, to the
\* elements the full column decodes to, less the first i.
C10_SliceCorrectness ==
    (array.k = "Struct" /\ sliceAt >= 0) =>
        LET full == try_into_collection(ty, sealed[1])
            rest == SubSeq(full.v, sliceAt + 1, Len(full.v))
        IN  /\ full = Val(input)
            /\ sliceAt <= Len(input)
            /\ rdTy = <<>> => pc = "sealed"
            /\ rdTy = <<ty>> =>
                  /\ pc \in {"read", "done"}
                  /\ IsPrefix(output, rest)
                  /\ pc = "done" => output = rest

\* test_nested_slice: three Tops, the column sliced at 1 and read to its end
C10_Witness_NestedSlice ==
    /\ ty = Top /\ rdTy = <<ty>> /\ sliceAt = 1 /\ pc = "done"
    /\ input = << <<<< <<<<1>>>>, <<>> >>>>, <<<< <<>> >>>>,
                  <<<< <<<<1>>>> >>>> >>
    /\ output = SubSeq(input, 2, 3)

\* C11: the slice [i, n) of a sealed dense union column built from es
\* (unit, scalar and struct variants, a variant may occur more than once),
\* 0 <= i <= n, decodes to exactly es[i..n].
C11_DenseUnionSlice ==
    (ty = TestDenseEnum /\ sliceAt >= 0 /\ rdTy = <<ty>>) =>
        LET rest == SubSeq(input, sliceAt + 1, Len(input))
        IN  /\ pc \in {"read", "done"}
            /\ IsPrefix(output, rest)
            /\ pc = "done" => output = rest

\* Option<Option<T>>
double_option(T) == T.t = "Option" /\ T.of.t = "Option"

\* C12: no descriptor is derived for a doubly optional type: the type is no
\* ArrowField (so that it has no data_type() and no field()), and parse
\* fails on it.
C12_DoubleOptionRejected ==
    double_option(ty) => ~ArrowField(ty) /\ ~parse(ty, FALSE).ok

\* Some(Some(x)) -> Some(Some(x)), Some(None) -> None, None -> None
flattened(v) == IF v = <<>> \/ v[1] = <<>> THEN <<>> ELSE v

\* C13: a sequence of Option<Option<i32>> is encoded without error, and read
\* back as Option<Option<i32>> without error or panic it yields, position
\* by position, Some(Some(x)) for Some(Some(x)) and None for Some(None) and
\* for None, as many elements as were encoded.
C13_NestedOptionFlattening ==
    ty = TOption(TOption(TI32)) =>
        /\ pc \notin {"encode_err", "panic"}
        /\ (rdTy = <<ty>> /\ sliceAt = -1) =>
              LET expected == [i \in DOMAIN input |-> flattened(input[i])]
              IN  /\ pc \in {"read", "done"}
                  /\ IsPrefix(output, expected)
                  /\ pc = "done" => output = expected

\* test_deserialize_iterator: [Some(Some(1)), Some(None), None] read to the end
C13_Witness_SomeNone ==
    /\ ty = TOption(TOption(TI32)) /\ rdTy = <<ty>> /\ pc = "done"
    /\ input = << << <<1>> >>, << <<>> >>, <<>> >>
    /\ output = << << <<1>> >>, <<>>, <<>> >>

\* C14: no encode and no decode operation panics, whatever the values
\* serialized and whatever the column and the type it is read as: a failure
\* is an error handed back to the caller.
C14_NoPanic == pc # "panic"

\* C15: when arrow_serialize returns an error for an element, the
\* conversion of the sequence returns that error and no array, whatever
\* follows the failing element, and nothing after it is serialized: the
\* builder is left as the failing call left it.
C15_EncodeErrorsPropagate ==
    pc = "encode_err" =>
        /\ rejected # <<>>
        /\ sealed = <<>> /\ column = <<>>
        /\ \A tail \in {<<>>} \cup {<<v>> : v \in Values(ty)} :
              LET r == try_into_arrow(ty, input \o rejected \o tail)
              IN  ~r.ok /\ ~r.panic /\ r.array = array

\* Rec { a: i32, b: FixedSizeBinary<2> }: a good element, then one whose b
\* has one byte
C15_Witness_SecondElementFails ==
    /\ pc = "encode_err" /\ ty = Rec /\ Len(input) = 1
    /\ rejected = << <<1, <<7>> >> >>

\* C16: the column try_into_arrow returns for elements of type E has the
\* data type E::data_type(), so that reading it as E passes the schema
\* check, and as many slots as elements were given.
C16_ColumnTypeAndLength ==
    sealed # <<>> =>
        /\ sealed[1].data_type = data_type(ty)
        /\ ~schema_mismatch(ty, sealed[1])
        /\ array_len(sealed[1]) = Len(input)

\* T and the types T is made of
RECURSIVE Nested(_)
Nested(T) ==
    {T} \cup
    CASE T.t \in {"Option", "Vec", "LargeVec", "FixedSizeVec"} -> Nested(T.of)
      [] T.t \in {"Struct", "Transparent"} ->
            UNION {Nested(T.fields[i].field_type) : i \in DOMAIN T.fields}
      [] T.t = "Enum" ->
            UNION {Nested(T.variants[i].field_type) : i \in DOMAIN T.variants}
      [] OTHER -> {}

\* C17: for every field type T, Option<T> has the data type of T and is
\* nullable, a type that is not an Option is not nullable, and field(name)
\* carries the name, the data type and the nullability of its type.
C17_NullabilityDerivation ==
    \A T \in Nested(ty) :
        /\ data_type(TOption(T)) = data_type(T)
        /\ is_nullable(TOption(T))
        /\ T.t # "Option" => ~is_nullable(T)
        /\ field(T, "x") = [name |-> "x", data_type |-> data_type(T),
                            is_nullable |-> T.t = "Option"]
        /\ field(TOption(T), "x") = [name |-> "x", data_type |-> data_type(T),
                                     is_nullable |-> TRUE]

\* a sealed column of Option<Pair>, Pair { a: i32, b: Option<i32> }: the
\* child a is not nullable, the child b is
C17_Witness_PairColumn ==
    /\ ty = TOption(Pair) /\ sealed # <<>>
    /\ sealed[1].data_type.fields[1] = field(TI32, "a")
    /\ ~sealed[1].data_type.fields[1].is_nullable
    /\ sealed[1].data_type.fields[2].is_nullable

\* the child of a descriptor for a member of type T
child(T, name) ==
    [name |-> name, data_type |-> data_type(T), is_nullable |-> T.t = "Option"]

\* the Struct descriptor with one child per field, in declaration order
struct_shape(T) ==
    [d |-> "Struct",
     fields |-> [i \in DOMAIN T.fields |->
                    child(T.fields[i].field_type, T.fields[i].name)]]

\* Vec<T> is List of a child "item" of T's data type and nullability, and
\* is itself nullable only in an Option
list_shape(T) ==
    /\ data_type(T) = [d |-> "List", item |-> child(T.of, "item")]
    /\ ~field(T, "x").is_nullable
    /\ field(TOption(T), "x").is_nullable
    /\ data_type(TOption(T)) = data_type(T)

enum_of(T) == IF T.t = "Option" THEN T.of ELSE T

\* the entry of the Bool child c at slot j is a valid true
true_at(c, j) ==
    /\ j <= Len(c.values)
    /\ c.values[j] = TRUE
    /\ ~c.validity.has \/ c.validity.bits[j]

\* C19: a unit variant of a derived enum has a Bool child column, and in a
\* dense and in a sparse union builder the entry of that column at every
\* position tagged with the variant is true (in a dense union the r-th
\* position with the tag has the r-th entry of the column).
C19_UnitVariantsTrue ==
    array.k = "Union" =>
        LET E == enum_of(ty)
        IN  \A k \in DOMAIN E.variants :
                E.variants[k].is_unit =>
                    /\ array.data_type.fields[k].data_type = [d |-> "Boolean"]
                    /\ array.fields[k].k = "Boolean"
                    /\ \A i \in 1..Len(array.types) :
                          array.types[i] = k - 1 =>
                              true_at(array.fields[k],
                                      IF E.is_dense
                                      THEN Tagged(array.types, k - 1, i)
                                      ELSE i)

\* C20: flatten returns Ok exactly for a chunk of one array whose physical
\* type is Struct, and then the chunk of the struct's children in field
\* order; a chunk of no array, of two arrays (structs or not) and of one
\* array that is no struct is an Err; nothing panics.
C20_FlattenChunk ==
    flat # <<>> =>
        LET chunk == flat[1].chunk
            r == flat[1].result
            fs == data_type(ty).fields
        IN  /\ ~r.panic /\ pc = "flattened"
            /\ r.ok <=> (Len(chunk) = 1 /\ data_type(ty).d = "Struct")
            /\ r.ok =>
                  /\ Len(r.arrays) = Len(fs)
                  /\ \A i \in DOMAIN fs :
                        /\ r.arrays[i] = as_box(array.fields[i])
                        /\ r.arrays[i].data_type = fs[i].data_type

\* test_flatten_chunk: a chunk of the one column of two structs of two
\* fields flattens to its two child columns
C20_Witness_TwoChildren ==
    /\ ty = Rec /\ Len(input) = 2 /\ pc = "flattened"
    /\ Len(flat[1].chunk) = 1 /\ flat[1].result.ok
    /\ Len(flat[1].result.arrays) = 2
    /\ flat[1].result.arrays[1].values = <<input[1][1], input[2][1]>>

\* C21: reading a column of n slots that the encoder produced, as the type
\* it was encoded as, never fails or panics and yields n items; after the
\* n-th, next() returns the end of the sequence and leaves the iterator as
\* it is, so that every further next() returns the end as well.
C21_DecodeEndsCleanly ==
    (rdTy = <<ty>> /\ sliceAt = -1) =>
        LET n == array_len(sealed[1])
        IN  /\ pc \in {"read", "done"}
            /\ Len(output) <= n
            /\ pc = "done" =>
                  /\ Len(output) = n
                  /\ next(ty, iter[1]) = End(iter[1])

RECURSIVE items_of(_)
items_of(vs) == IF vs = <<>> THEN <<>> ELSE vs[1] \o items_of(Tail(vs))

\* the validity of the struct builder a is the one of a builder into which
\* the i-th push was a Some exactly when some[i]: none before the first
\* null, and from then on one bit per element of the builder, set for Some
lazy_validity(a, some) ==
    /\ (\A i \in DOMAIN some : some[i]) => ~a.validity.has
    /\ a.validity.has =>
          /\ Len(a.validity.bits) = len(a)
          /\ Len(a.validity.bits) = Len(some)
          /\ \A i \in DOMAIN some : a.validity.bits[i] = some[i]

\* C23: a derived struct builder (at the top, or the item builder of a list)
\* has no validity bitmap before the first null is pushed; once it has one,
\* the bitmap is as long as the builder, and bit i is set exactly when the
\* i-th push was a Some.
C23_LazyValidity ==
    /\ array.k = "Struct" =>
          lazy_validity(array,
                        [i \in DOMAIN input |->
                            ty.t = "Option" => input[i] # <<>>])
    /\ (ty = Top /\ rejected = <<>>) =>
          LET items == items_of([i \in DOMAIN input |-> input[i][1]])
          IN  lazy_validity(array.fields[1].values,
                            [i \in DOMAIN items |-> items[i] # <<>>])

\* the offsets and the validity of the list builder a are the ones of the
\* appends vs, each None (<<>>) or Some(items) (<<items>>)
list_offsets(a, vs) ==
    /\ Len(a.offsets) = Len(vs) + 1
    /\ a.offsets[1] = 0
    /\ \A i \in DOMAIN vs :
          /\ a.offsets[i] <= a.offsets[i + 1]
          /\ a.offsets[i + 1] - a.offsets[i] =
                IF vs[i] = <<>> THEN 0 ELSE Len(vs[i][1])
          /\ vs[i] = <<>> => a.validity.has /\ ~a.validity.bits[i]
          /\ (vs[i] # <<>> /\ a.validity.has) => a.validity.bits[i]
    /\ Last(a.offsets) = len(a.values)

\* C24: after n successful appends of Some(items) or None to the list
\* builder of Vec<T> or LargeVec<T> (at the top, or of a struct field), the
\* builder has n + 1 offsets that start at 0 and never decrease, each
\* element is as wide as the number of its items, the last offset is the
\* length of the child builder, and a None is a zero-width element that
\* has validity bit 0.
C24_ListOffsets ==
    /\ (array.k = "List" /\ rejected = <<>>) =>
          list_offsets(array,
                       [i \in DOMAIN input |->
                           IF ty.t = "Option" THEN input[i]
                                              ELSE <<input[i]>>])
    /\ (ty = Top /\ rejected = <<>>) =>
          list_offsets(array.fields[1], [i \in DOMAIN input |-> input[i]])

\* C25: after appends of values and of nulls to a dense union builder there
\* are as many offsets as type ids, and the offset at every position is the
\* index, in the child of the type id at that position, of the slot that
\* the append at that position has written: a slot of that child, and the
\* one after the slots of the earlier positions of the same type id.
C25_DenseOffsetPerElement ==
    (array.k = "Union" /\ array.is_dense /\ rejected = <<>>) =>
        /\ Len(array.offsets) = Len(array.types)
        /\ \A i \in DOMAIN array.types \cap DOMAIN array.offsets :
              /\ array.offsets[i] >= 0
              /\ array.offsets[i] < entries(array.fields[array.types[i] + 1])
              /\ array.offsets[i] =
                    Tagged(array.types, array.types[i], i - 1)

\* C26: the length that a union builder reports (MutableArray::len) is the
\* number of type ids pushed, which is the number of elements appended, in
\* dense and in sparse mode.
C26_UnionLen ==
    (array.k = "Union" /\ rejected = <<>>) =>
        /\ Len(array.types) = Len(input)
        /\ len(array) = Len(array.types)

\* the number of entries an iterator has consumed
RECURSIVE position(_)
position(it) ==
    CASE it.k = "ArrayIter" -> it.index
      [] it.k = "UnionIter" -> it.types_iter.index
      [] it.k = "StructIter" ->
            IF it.has_validity THEN it.validity_iter.index
                               ELSE position(it.fields[1])

\* after k items a sparse reader has consumed k entries of every variant,
\* and a dense reader as many entries of a variant as there are positions
\* among the first k with its type id
union_stepped ==
    (pc \in {"read", "done"} /\ iter[1].k = "UnionIter") =>
        LET it == iter[1]
            k == it.types_iter.index
        IN  /\ k = Len(output)
            /\ \A j \in DOMAIN it.fields :
                  position(it.fields[j]) =
                      IF enum_of(rdTy[1]).is_dense
                      THEN Tagged(it.types_iter.types, j - 1, k)
                      ELSE k

\* a next() that yields an item consumes one type id, steps the iterator
\* of the variant of that type id by one, and steps every other variant's
\* iterator by one in sparse mode and not at all in dense mode; the item is
\* of the variant of the type id
union_step ==
    (pc = "read" /\ pc' = "read" /\ iter[1].k = "UnionIter") =>
        LET it == iter[1]
            it2 == iter'[1]
            j == it.types_iter.types[it.types_iter.index + 1] + 1
            e == Last(output')
        IN  /\ it2.types_iter.index = it.types_iter.index + 1
            /\ position(it2.fields[j]) = position(it.fields[j]) + 1
            /\ \A i \in DOMAIN it.fields \ {j} :
                  IF enum_of(rdTy[1]).is_dense
                  THEN it2.fields[i] = it.fields[i]
                  ELSE position(it2.fields[i]) = position(it.fields[i]) + 1
            /\ Len(output') = Len(output) + 1
            /\ IF rdTy[1].t = "Option" THEN e = <<>> \/ e[1].variant = j
                                       ELSE e.variant = j

\* C27: every next() of a union reader consumes one type id; a dense reader
\* advances the iterator of the variant of that type id only, a sparse
\* reader advances the iterator of every variant by one and yields the
\* value of the selected variant; after k steps the sparse reader has
\* consumed k entries of every variant and the dense reader, of variant j,
\* the number of the first k positions tagged j.
C27_UnionReaderStepping == []union_stepped /\ [][union_step]_vars

C27_Witness_DenseThreeVariants ==
    /\ rdTy = <<TestDenseEnum>> /\ pc = "done" /\ sliceAt = -1
    /\ iter[1].types_iter.types = <<1, 0, 1>>
    /\ iter[1].types_iter.index = 3
    /\ position(iter[1].fields[1]) = 1
    /\ position(iter[1].fields[2]) = 2
    /\ position(iter[1].fields[3]) = 0
    /\ Len(output) = 3

C27_Witness_SparseThreeVariants ==
    /\ rdTy = <<TestSparseEnum>> /\ pc = "done" /\ sliceAt = -1
    /\ iter[1].types_iter.types = <<1, 0, 2>>
    /\ \A j \in 1..3 : position(iter[1].fields[j]) = 3
    /\ Len(output) = 3

\* after k items every child iterator of a struct reader has consumed k
\* entries, and the items are those of the column, position by position
struct_stepped ==
    (pc \in {"read", "done"} /\ iter[1].k = "StructIter") =>
        /\ \A i \in DOMAIN iter[1].fields :
              position(iter[1].fields[i]) = Len(output)
        /\ iter[1].has_validity =>
              iter[1].validity_iter.index = Len(output)
        /\ (rdTy = <<ty>> /\ sliceAt = -1) => IsPrefix(output, input)

\* a next() that yields an item, a struct or a null, advances every child
\* iterator by one; the item is a null exactly when the validity bit of
\* the position is unset
struct_step ==
    (pc = "read" /\ pc' = "read" /\ iter[1].k = "StructIter") =>
        LET it == iter[1]
            it2 == iter'[1]
        IN  /\ \A i \in DOMAIN it.fields :
                  position(it2.fields[i]) = position(it.fields[i]) + 1
            /\ Len(output') = Len(output) + 1
            /\ it.has_validity =>
                  /\ it2.validity_iter.index = it.validity_iter.index + 1
                  /\ (Last(output') = <<>>) =
                        ~it.validity_iter.bits[it.validity_iter.index + 1]

\* C28: every next() of a struct reader advances every child iterator by
\* one, whether the validity bit of the position is set (a struct is
\* assembled) or unset (the entries are discarded and a null is yielded);
\* after k calls every child has consumed k entries, and a struct after a
\* null struct is assembled from the entries at its own position.
C28_StructReaderAlignment == []struct_stepped /\ [][struct_step]_vars

C28_Witness_StructAfterNull ==
    /\ rdTy = <<TOption(Pair)>> /\ ty = TOption(Pair) /\ sliceAt = -1
    /\ pc = "read" /\ Len(input) = 3
    /\ input[1] # <<>> /\ input[2] = <<>> /\ input[3] = <<<<2, <<1>>>>>>
    /\ output = input
    /\ \A i \in DOMAIN iter[1].fields : position(iter[1].fields[i]) = 3

\* C29: the reader checks the Bool payload of a position tagged with a unit
\* variant, in dense and in sparse mode: a column in which such a payload
\* is false is not decoded (the assertion fails), and in the columns of
\* the encoder, where the payload is true, the position is decoded as the
\* unit variant.
C29_UnitPayloadChecked ==
    /\ pc = "foreign" => foreign[1].result = Unwound
    /\ (pc \in {"read", "done"} /\ iter[1].k = "UnionIter") =>
          \A i \in DOMAIN output :
              LET k == iter[1].types_iter.types[i] + 1
                  e == IF rdTy[1].t = "Option" THEN output[i][1]
                                              ELSE output[i]
              IN  enum_of(rdTy[1]).variants[k].is_unit =>
                      e = [variant |-> k, payload |-> TRUE]

C29_Witness_FalsePayload ==
    /\ pc = "foreign" /\ ty = TestSparseEnum
    /\ input = <<[variant |-> 2, payload |-> 1],
                 [variant |-> 1, payload |-> TRUE]>>
    /\ foreign[1].column.types = <<1, 0>>
    /\ foreign[1].column.fields[1].values[2] = FALSE
    /\ foreign[1].column.fields[1].validity.bits[2]
    /\ foreign[1].result = Unwound

\* C30: a sequence of Option<E>, E a derived enum, dense or sparse, with a
\* unit or a payload variant first, is read back, as Option<E>, as it was
\* encoded: None where a None was appended, and the appended value at every
\* other position.
C30_NullUnionRoundTrip ==
    (ty.t = "Option" /\ ty.of.t = "Enum" /\ rdTy = <<ty>> /\ sliceAt = -1) =>
        /\ pc \in {"read", "done"}
        /\ IsPrefix(output, input)
        /\ pc = "done" => output = input

====
